---- MODULE Spec2Model ----
(***************************************************************************)
(* Model of fpga_topwrap/kpm_common.py: the helpers that split a Pipeline  *)
(* Manager dataflow graph into IP-core nodes and external metanodes, index *)
(* the interfaces of nodes by id, split the connections, and look up       *)
(* interfaces and node types.                                              *)
(*                                                                         *)
(* Python values are modelled as follows:                                  *)
(*   list  -> sequence            dict with fixed keys -> record           *)
(*   dict keyed by interface id -> function whose DOMAIN is the key set    *)
(*   None  -> <<>>, any other returned value x of a lookup -> <<x>>        *)
(***************************************************************************)
EXTENDS Naturals, Sequences, FiniteSets

VARIABLES dataflow_json, specification, pc, args, ret

vars == <<dataflow_json, specification, pc, args, ret>>

(***************************************************************************)
(* Program constants                                                       *)
(***************************************************************************)
EXT_INPUT_NAME == "External Input"
EXT_OUTPUT_NAME == "External Output"

(***************************************************************************)
(* Python helpers                                                          *)
(***************************************************************************)
None == <<>>
Some(x) == <<x>>

EmptyDict == [k \in {} |-> None]

\* result[key] = value
DictSet(d, key, value) ==
    [k \in (DOMAIN d) \cup {key} |-> IF k = key THEN value ELSE d[k]]

(***************************************************************************)
(* kpm_common.py                                                           *)
(***************************************************************************)
\* faulty variant: only external inputs count as metanodes
_is_external_metanode_only_input(node) ==
    node.type \in {EXT_INPUT_NAME}

_is_external_metanode(node) ==
    node.type \in {EXT_INPUT_NAME, EXT_OUTPUT_NAME}

\* faulty variant: the kept nodes come out in reverse order
RECURSIVE ip_nodes_from_reversed(_, _)
ip_nodes_from_reversed(nodes, i) ==
    IF i > Len(nodes) THEN <<>>
    ELSE IF ~_is_external_metanode(nodes[i])
         THEN ip_nodes_from_reversed(nodes, i + 1) \o <<nodes[i]>>
         ELSE ip_nodes_from_reversed(nodes, i + 1)

\* [node for node in nodes[i..] if not _is_external_metanode(node)]
RECURSIVE ip_nodes_from(_, _)
ip_nodes_from(nodes, i) ==
    IF i > Len(nodes) THEN <<>>
    ELSE IF ~_is_external_metanode(nodes[i])
         THEN <<nodes[i]>> \o ip_nodes_from(nodes, i + 1)
         ELSE ip_nodes_from(nodes, i + 1)

get_dataflow_ip_nodes(dataflow) ==
    ip_nodes_from(dataflow.graph.nodes, 1)

\* [node for node in nodes[i..] if _is_external_metanode(node)]
RECURSIVE metanodes_from(_, _)
metanodes_from(nodes, i) ==
    IF i > Len(nodes) THEN <<>>
    ELSE IF _is_external_metanode(nodes[i])
         THEN <<nodes[i]>> \o metanodes_from(nodes, i + 1)
         ELSE metanodes_from(nodes, i + 1)

get_dataflow_metanodes(dataflow) ==
    metanodes_from(dataflow.graph.nodes, 1)

\* faulty variant: the entry carries the node's name as the interface name
RECURSIVE _get_interfaces_loop_node_name(_, _, _, _)
_get_interfaces_loop_node_name(result, nodes, i, j) ==
    IF i > Len(nodes) THEN result
    ELSE IF j > Len(nodes[i].interfaces)
         THEN _get_interfaces_loop_node_name(result, nodes, i + 1, 1)
         ELSE _get_interfaces_loop_node_name(
                  DictSet(result, nodes[i].interfaces[j].id,
                          [node_name  |-> nodes[i].name,
                           iface_name |-> nodes[i].name,
                           iface_dir  |-> nodes[i].interfaces[j].direction]),
                  nodes, i, j + 1)

\* the loops of _get_interfaces, from interface j of node i on
RECURSIVE _get_interfaces_loop(_, _, _, _)
_get_interfaces_loop(result, nodes, i, j) ==
    IF i > Len(nodes) THEN result
    ELSE IF j > Len(nodes[i].interfaces)
         THEN _get_interfaces_loop(result, nodes, i + 1, 1)
         ELSE _get_interfaces_loop(
                  DictSet(result, nodes[i].interfaces[j].id,
                          [node_name  |-> nodes[i].name,
                           iface_name |-> nodes[i].interfaces[j].name,
                           iface_dir  |-> nodes[i].interfaces[j].direction]),
                  nodes, i, j + 1)

_get_interfaces(nodes) ==
    _get_interfaces_loop(EmptyDict, nodes, 1, 1)

\* faulty variant: the index is built over all the nodes
get_dataflow_ips_interfaces_all_nodes(dataflow) ==
    _get_interfaces(dataflow.graph.nodes)

get_dataflow_ips_interfaces(dataflow) ==
    _get_interfaces(get_dataflow_ip_nodes(dataflow))

\* faulty variant: one endpoint in ifaces_ids is enough
RECURSIVE ip_connections_from_either(_, _, _)
ip_connections_from_either(conns, ifaces_ids, i) ==
    IF i > Len(conns) THEN <<>>
    ELSE IF conns[i].from \in ifaces_ids \/ conns[i].to \in ifaces_ids
         THEN <<conns[i]>> \o ip_connections_from_either(conns, ifaces_ids, i + 1)
         ELSE ip_connections_from_either(conns, ifaces_ids, i + 1)

\* [conn for conn in conns[i..] if conn.from in ids and conn.to in ids]
RECURSIVE ip_connections_from(_, _, _)
ip_connections_from(conns, ifaces_ids, i) ==
    IF i > Len(conns) THEN <<>>
    ELSE IF conns[i].from \in ifaces_ids /\ conns[i].to \in ifaces_ids
         THEN <<conns[i]>> \o ip_connections_from(conns, ifaces_ids, i + 1)
         ELSE ip_connections_from(conns, ifaces_ids, i + 1)

\* faulty variant: every connection that touches no metanode interface
get_dataflow_ip_connections_not_external(dataflow) ==
    LET ext_ids == DOMAIN _get_interfaces(get_dataflow_metanodes(dataflow))
    IN  SelectSeq(dataflow.graph.connections,
                  LAMBDA conn : conn.from \notin ext_ids /\ conn.to \notin ext_ids)

get_dataflow_ip_connections(dataflow) ==
    LET ifaces_ids == DOMAIN get_dataflow_ips_interfaces(dataflow)
    IN  ip_connections_from(dataflow.graph.connections, ifaces_ids, 1)

get_dataflow_externals_interfaces(dataflow) ==
    _get_interfaces(get_dataflow_metanodes(dataflow))

\* faulty variant: a connection is listed once per endpoint in ifaces_ids
RECURSIVE external_connections_from_per_endpoint(_, _, _)
external_connections_from_per_endpoint(conns, ifaces_ids, i) ==
    IF i > Len(conns) THEN <<>>
    ELSE (IF conns[i].from \in ifaces_ids THEN <<conns[i]>> ELSE <<>>)
         \o (IF conns[i].to \in ifaces_ids THEN <<conns[i]>> ELSE <<>>)
         \o external_connections_from_per_endpoint(conns, ifaces_ids, i + 1)

\* [conn for conn in conns[i..] if conn.from in ids or conn.to in ids]
RECURSIVE external_connections_from(_, _, _)
external_connections_from(conns, ifaces_ids, i) ==
    IF i > Len(conns) THEN <<>>
    ELSE IF conns[i].from \in ifaces_ids \/ conns[i].to \in ifaces_ids
         THEN <<conns[i]>> \o external_connections_from(conns, ifaces_ids, i + 1)
         ELSE external_connections_from(conns, ifaces_ids, i + 1)

get_dataflow_external_connections(dataflow) ==
    LET ifaces_ids == DOMAIN get_dataflow_externals_interfaces(dataflow)
    IN  external_connections_from(dataflow.graph.connections, ifaces_ids, 1)

\* faulty variant: only the interfaces of the IP-core nodes are searched
find_dataflow_interface_by_id_ip_only(dataflow, iface_id) ==
    LET interfaces == _get_interfaces(get_dataflow_ip_nodes(dataflow))
    IN  IF iface_id \in DOMAIN interfaces
        THEN Some(interfaces[iface_id])
        ELSE None

find_dataflow_interface_by_id(dataflow, iface_id) ==
    LET interfaces == _get_interfaces(dataflow.graph.nodes)
    IN  IF iface_id \in DOMAIN interfaces
        THEN Some(interfaces[iface_id])
        ELSE None

\* faulty variant: the type of the entry is not looked at
RECURSIVE find_spec_interface_loop_any_type(_, _, _, _, _)
find_spec_interface_loop_any_type(nodes, node_type, iface_name, i, j) ==
    IF i > Len(nodes) THEN None
    ELSE IF j > Len(nodes[i].interfaces)
         THEN find_spec_interface_loop_any_type(nodes, node_type, iface_name, i + 1, 1)
         ELSE IF nodes[i].interfaces[j].name = iface_name
              THEN Some(nodes[i].interfaces[j])
              ELSE find_spec_interface_loop_any_type(nodes, node_type, iface_name, i, j + 1)

\* the loops of find_spec_interface_by_name, from interface j of node i on
RECURSIVE find_spec_interface_loop(_, _, _, _, _)
find_spec_interface_loop(nodes, node_type, iface_name, i, j) ==
    IF i > Len(nodes) THEN None
    ELSE IF nodes[i].type # node_type
         THEN find_spec_interface_loop(nodes, node_type, iface_name, i + 1, 1)
         ELSE IF j > Len(nodes[i].interfaces)
              THEN find_spec_interface_loop(nodes, node_type, iface_name, i + 1, 1)
              ELSE IF nodes[i].interfaces[j].name = iface_name
                   THEN Some(nodes[i].interfaces[j])
                   ELSE find_spec_interface_loop(nodes, node_type, iface_name, i, j + 1)

find_spec_interface_by_name(spec, node_type, iface_name) ==
    find_spec_interface_loop(spec.nodes, node_type, iface_name, 1, 1)

\* faulty variant: the last node of the name wins
RECURSIVE find_node_type_loop_last(_, _, _)
find_node_type_loop_last(nodes, node_name, i) ==
    IF i > Len(nodes) THEN None
    ELSE IF find_node_type_loop_last(nodes, node_name, i + 1) # None
         THEN find_node_type_loop_last(nodes, node_name, i + 1)
         ELSE IF nodes[i].name = node_name THEN Some(nodes[i].type) ELSE None

\* the loop of find_dataflow_node_type_by_name, from node i on
RECURSIVE find_node_type_loop(_, _, _)
find_node_type_loop(nodes, node_name, i) ==
    IF i > Len(nodes) THEN None
    ELSE IF nodes[i].name = node_name
         THEN Some(nodes[i].type)
         ELSE find_node_type_loop(nodes, node_name, i + 1)

find_dataflow_node_type_by_name(dataflow, node_name) ==
    find_node_type_loop(dataflow.graph.nodes, node_name, 1)

(***************************************************************************)
(* Inputs                                                                  *)
(***************************************************************************)
MaxNodes == 2
MaxIfaces == 2
MaxConns == 2

SeqsUpTo(S, n) == UNION {[1..k -> S] : k \in 0..n}

NodeNames == {"dma", "hdmi"}
IpTypes == {"ps7", "hdmi_tx"}
NodeTypes == {EXT_INPUT_NAME, EXT_OUTPUT_NAME, "ps7"}
IfaceIds == {"i1", "i2"}
IfaceNames == {"clk", "rst"}

\* interfaces of dataflow nodes; two of them share the id "i1"
Interfaces ==
    {[id |-> "i1", name |-> "clk", direction |-> "input"],
     [id |-> "i2", name |-> "rst", direction |-> "output"],
     [id |-> "i1", name |-> "rst", direction |-> "inout"]}

\* interfaces of specification nodes
SpecInterfaces == [name : IfaceNames, direction : {"input", "output"}]

\* the interfaces among ifs that belong to node k, in their order, ifs[i]
\* belonging to node own[i]
RECURSIVE OwnedFrom(_, _, _, _)
OwnedFrom(ifs, own, k, i) ==
    IF i > Len(ifs) THEN <<>>
    ELSE IF own[i] = k
         THEN <<ifs[i]>> \o OwnedFrom(ifs, own, k, i + 1)
         ELSE OwnedFrom(ifs, own, k, i + 1)

\* the node list with headers hs (names and types), node k owning the
\* interfaces ifs[i] with own[i] = k
NodeList(hs, ifs, own) ==
    [k \in 1..Len(hs) |->
        [name |-> hs[k].name, type |-> hs[k].type,
         interfaces |-> OwnedFrom(ifs, own, k, 1)]]

\* own assigns the interfaces to the nodes in node order
InNodeOrder(own) ==
    \A i \in 1..Len(own), j \in 1..Len(own) : i < j => own[i] <= own[j]

\* nodes with a single interface
PortNodes ==
    {[name |-> "port", type |-> t,
      interfaces |-> <<[id |-> i, name |-> "io", direction |-> "inout"]>>] :
        t \in NodeTypes, i \in IfaceIds}

Connections == [from : IfaceIds, to : IfaceIds]

EmptyGraph == [graph |-> [nodes |-> <<>>, connections |-> <<>>]]
EmptySpecification == [nodes |-> <<>>]

\* graphs without connections: at most MaxNodes nodes of any name and type,
\* with at most MaxIfaces interfaces in all
InitIndexGraph ==
    /\ \E n \in 0..MaxNodes, m \in 0..MaxIfaces :
         \E hs \in [1..n -> [name : NodeNames, type : NodeTypes]],
            ifs \in [1..m -> Interfaces], own \in [1..m -> 1..n] :
              /\ InNodeOrder(own)
              /\ dataflow_json =
                    [graph |-> [nodes |-> NodeList(hs, ifs, own), connections |-> <<>>]]
    /\ specification = EmptySpecification

\* graphs of at most MaxNodes single-interface nodes and MaxConns connections
InitWiredGraph ==
    /\ \E ns \in SeqsUpTo(PortNodes, MaxNodes), cs \in SeqsUpTo(Connections, MaxConns) :
          dataflow_json = [graph |-> [nodes |-> ns, connections |-> cs]]
    /\ specification = EmptySpecification

\* catalogs of at most MaxNodes entries with at most MaxIfaces interfaces in all
InitSpecification ==
    /\ \E n \in 0..MaxNodes, m \in 0..MaxIfaces :
         \E hs \in [1..n -> [name : {"ip"}, type : IpTypes]],
            ifs \in [1..m -> SpecInterfaces], own \in [1..m -> 1..n] :
              /\ InNodeOrder(own)
              /\ specification = [nodes |-> NodeList(hs, ifs, own)]
    /\ dataflow_json = EmptyGraph

(***************************************************************************)
(* State machine.  The functions keep no state and do not change their     *)
(* arguments: a behaviour is a choice of the arguments followed by one     *)
(* call; pc names the function called, args its scalar arguments and ret   *)
(* what it returned.                                                       *)
(***************************************************************************)
Init ==
    /\ \/ InitIndexGraph
       \/ InitWiredGraph
       \/ InitSpecification
    /\ pc = "start"
    /\ args = <<>>
    /\ ret = None

Call_get_dataflow_ip_nodes ==
    /\ pc = "start"
    /\ pc' = "get_dataflow_ip_nodes"
    /\ args' = <<>>
    /\ ret' = get_dataflow_ip_nodes(dataflow_json)
    /\ UNCHANGED <<dataflow_json, specification>>

Call_get_dataflow_metanodes ==
    /\ pc = "start"
    /\ pc' = "get_dataflow_metanodes"
    /\ args' = <<>>
    /\ ret' = get_dataflow_metanodes(dataflow_json)
    /\ UNCHANGED <<dataflow_json, specification>>

Call_get_interfaces ==
    /\ pc = "start"
    /\ pc' = "_get_interfaces"
    /\ args' = <<>>
    /\ ret' = _get_interfaces(dataflow_json.graph.nodes)
    /\ UNCHANGED <<dataflow_json, specification>>

Call_get_dataflow_ips_interfaces ==
    /\ pc = "start"
    /\ pc' = "get_dataflow_ips_interfaces"
    /\ args' = <<>>
    /\ ret' = get_dataflow_ips_interfaces(dataflow_json)
    /\ UNCHANGED <<dataflow_json, specification>>

Call_get_dataflow_ip_connections ==
    /\ pc = "start"
    /\ pc' = "get_dataflow_ip_connections"
    /\ args' = <<>>
    /\ ret' = get_dataflow_ip_connections(dataflow_json)
    /\ UNCHANGED <<dataflow_json, specification>>

Call_get_dataflow_externals_interfaces ==
    /\ pc = "start"
    /\ pc' = "get_dataflow_externals_interfaces"
    /\ args' = <<>>
    /\ ret' = get_dataflow_externals_interfaces(dataflow_json)
    /\ UNCHANGED <<dataflow_json, specification>>

Call_get_dataflow_external_connections ==
    /\ pc = "start"
    /\ pc' = "get_dataflow_external_connections"
    /\ args' = <<>>
    /\ ret' = get_dataflow_external_connections(dataflow_json)
    /\ UNCHANGED <<dataflow_json, specification>>

Call_find_dataflow_interface_by_id ==
    /\ pc = "start"
    /\ \E iface_id \in IfaceIds :
          /\ args' = <<iface_id>>
          /\ ret' = find_dataflow_interface_by_id(dataflow_json, iface_id)
    /\ pc' = "find_dataflow_interface_by_id"
    /\ UNCHANGED <<dataflow_json, specification>>

Call_find_spec_interface_by_name ==
    /\ pc = "start"
    /\ \E node_type \in IpTypes, iface_name \in IfaceNames :
          /\ args' = <<node_type, iface_name>>
          /\ ret' = find_spec_interface_by_name(specification, node_type, iface_name)
    /\ pc' = "find_spec_interface_by_name"
    /\ UNCHANGED <<dataflow_json, specification>>

Call_find_dataflow_node_type_by_name ==
    /\ pc = "start"
    /\ \E node_name \in NodeNames :
          /\ args' = <<node_name>>
          /\ ret' = find_dataflow_node_type_by_name(dataflow_json, node_name)
    /\ pc' = "find_dataflow_node_type_by_name"
    /\ UNCHANGED <<dataflow_json, specification>>

Next ==
    \/ Call_get_dataflow_ip_nodes
    \/ Call_get_dataflow_metanodes
    \/ Call_get_interfaces
    \/ Call_get_dataflow_ips_interfaces
    \/ Call_get_dataflow_ip_connections
    \/ Call_get_dataflow_externals_interfaces
    \/ Call_get_dataflow_external_connections
    \/ Call_find_dataflow_interface_by_id
    \/ Call_find_spec_interface_by_name
    \/ Call_find_dataflow_node_type_by_name

Spec == Init /\ [][Next]_vars

(***************************************************************************)
(* Vocabulary of the properties, stated on the graph itself and not with   *)
(* the functions of the module.                                            *)
(***************************************************************************)
Nodes == dataflow_json.graph.nodes
Conns == dataflow_json.graph.connections

IsMetanodeType(t) == t = "External Input" \/ t = "External Output"

MetaIdx == {i \in 1..Len(Nodes) : IsMetanodeType(Nodes[i].type)}
CoreIdx == {i \in 1..Len(Nodes) : ~IsMetanodeType(Nodes[i].type)}

\* the positions <<node, interface>> of the interfaces of the nodes of I
IfacePos(nodes, I) ==
    UNION {{<<i, j>> : j \in 1..Len(nodes[i].interfaces)} : i \in I}

IdsOf(nodes, I) == {nodes[p[1]].interfaces[p[2]].id : p \in IfacePos(nodes, I)}

CoreIds == IdsOf(Nodes, CoreIdx)
MetaIds == IdsOf(Nodes, MetaIdx)
AllIds == IdsOf(Nodes, 1..Len(Nodes))

\* no two interfaces of the nodes carry the same id
UniqueIds(nodes) ==
    \A p \in IfacePos(nodes, 1..Len(nodes)), q \in IfacePos(nodes, 1..Len(nodes)) :
        nodes[p[1]].interfaces[p[2]].id = nodes[q[1]].interfaces[q[2]].id => p = q

Occurs(x, s) == \E k \in 1..Len(s) : s[k] = x
Count(x, s) == Cardinality({k \in 1..Len(s) : s[k] = x})

\* the elements of s at the positions of I, in the order of s
Pick(s, I) ==
    [k \in 1..Cardinality(I) |->
        s[CHOOSE i \in I : Cardinality({j \in I : j <= i}) = k]]

\* r is s with some elements left out
IsSubsequence(r, s) ==
    \E f \in [1..Len(r) -> 1..Len(s)] :
        /\ \A k \in 1..Len(r) : r[k] = s[f[k]]
        /\ \A k \in 1..Len(r), l \in 1..Len(r) : k < l => f[k] < f[l]

TouchesMeta(c) == c.from \in MetaIds \/ c.to \in MetaIds
BothCore(c) == c.from \in CoreIds /\ c.to \in CoreIds
Dangling(c) == c.from \notin AllIds /\ c.to \notin AllIds

\* the two node views and the two connection views of the graph, the one
\* just returned taken from ret
IpNodesView ==
    IF pc = "get_dataflow_ip_nodes" THEN ret ELSE get_dataflow_ip_nodes(dataflow_json)
MetanodesView ==
    IF pc = "get_dataflow_metanodes" THEN ret ELSE get_dataflow_metanodes(dataflow_json)
IpConnectionsView ==
    IF pc = "get_dataflow_ip_connections" THEN ret
    ELSE get_dataflow_ip_connections(dataflow_json)
ExternalConnectionsView ==
    IF pc = "get_dataflow_external_connections" THEN ret
    ELSE get_dataflow_external_connections(dataflow_json)

(***************************************************************************)
(* Properties                                                              *)
(***************************************************************************)

\* C1: get_dataflow_ip_nodes(G) and get_dataflow_metanodes(G) partition the
\* nodes of G: a node is in the metanode result iff its type is "External
\* Input" or "External Output" and in the IP-core result otherwise, no node
\* is in both, every element of a result is a node of G, and the lengths of
\* the two results sum to the number of nodes of G.
C1_NodesPartition ==
    pc \in {"get_dataflow_ip_nodes", "get_dataflow_metanodes"} =>
        /\ \A i \in 1..Len(Nodes) :
              /\ Occurs(Nodes[i], MetanodesView) <=> IsMetanodeType(Nodes[i].type)
              /\ Occurs(Nodes[i], IpNodesView) <=> ~IsMetanodeType(Nodes[i].type)
        /\ \A k \in 1..Len(IpNodesView) :
              Occurs(IpNodesView[k], Nodes) /\ ~Occurs(IpNodesView[k], MetanodesView)
        /\ \A k \in 1..Len(MetanodesView) :
              Occurs(MetanodesView[k], Nodes) /\ ~Occurs(MetanodesView[k], IpNodesView)
        /\ Len(IpNodesView) + Len(MetanodesView) = Len(Nodes)

C1_Witness ==
    /\ pc = "get_dataflow_metanodes"
    /\ Len(Nodes) = 2
    /\ Nodes[1].type = "ps7"
    /\ Nodes[2].type = "External Output"
    /\ ret = <<Nodes[2]>>

\* C2: in a graph whose interface ids are unique, a connection with at least
\* one endpoint on a metanode interface is in
\* get_dataflow_external_connections(G) and not in
\* get_dataflow_ip_connections(G); a connection with both endpoints on
\* IP-core interfaces is in get_dataflow_ip_connections(G) and not in
\* get_dataflow_external_connections(G); no connection is in both results.
C2_ConnectionsExclusive ==
    (/\ pc \in {"get_dataflow_ip_connections", "get_dataflow_external_connections"}
     /\ UniqueIds(Nodes)) =>
        /\ \A i \in 1..Len(Conns) :
              /\ TouchesMeta(Conns[i]) =>
                    /\ Occurs(Conns[i], ExternalConnectionsView)
                    /\ ~Occurs(Conns[i], IpConnectionsView)
              /\ BothCore(Conns[i]) =>
                    /\ Occurs(Conns[i], IpConnectionsView)
                    /\ ~Occurs(Conns[i], ExternalConnectionsView)
        /\ \A k \in 1..Len(IpConnectionsView) :
              ~Occurs(IpConnectionsView[k], ExternalConnectionsView)

C2_Witness ==
    /\ pc = "get_dataflow_external_connections"
    /\ UniqueIds(Nodes)
    /\ Len(Conns) = 2
    /\ BothCore(Conns[1])
    /\ TouchesMeta(Conns[2])
    /\ Conns[2].from \in CoreIds
    /\ ret = <<Conns[2]>>

\* C3: get_dataflow_ip_connections(G) holds exactly the connections of G
\* whose from and to are both ids of interfaces of IP-core nodes; a
\* connection with an endpoint that is no IP-core interface id (owned by a
\* metanode only, or dangling) is left out, and a list is returned.
C3_IpConnections ==
    pc = "get_dataflow_ip_connections" =>
        /\ ret = Pick(Conns, {i \in 1..Len(Conns) : BothCore(Conns[i])})
        /\ \A i \in 1..Len(Conns) :
              (Conns[i].from \notin CoreIds \/ Conns[i].to \notin CoreIds)
                  => ~Occurs(Conns[i], ret)

C3_Witness ==
    /\ pc = "get_dataflow_ip_connections"
    /\ Len(Conns) = 2
    /\ Conns[1].from \in MetaIds \ CoreIds
    /\ Conns[1].to \in CoreIds
    /\ BothCore(Conns[2])
    /\ ret = <<Conns[2]>>

\* C4: get_dataflow_external_connections(G) holds a connection of G iff at
\* least one of its endpoints is the id of a metanode interface, and holds
\* it once per occurrence in G (not twice), also when both endpoints are
\* metanode interfaces.
C4_ExternalConnections ==
    pc = "get_dataflow_external_connections" =>
        /\ \A i \in 1..Len(Conns) : Occurs(Conns[i], ret) <=> TouchesMeta(Conns[i])
        /\ \A k \in 1..Len(ret) : Occurs(ret[k], Conns)
        /\ \A i \in 1..Len(Conns) :
              TouchesMeta(Conns[i]) => Count(Conns[i], ret) = Count(Conns[i], Conns)

C4_Witness ==
    /\ pc = "get_dataflow_external_connections"
    /\ Len(Conns) = 2
    /\ Conns[1].from \in MetaIds /\ Conns[1].to \in MetaIds
    /\ Conns[2].from \in CoreIds \ MetaIds /\ Conns[2].to \in MetaIds
    /\ ret = Conns

\* C5: a connection whose two endpoints are ids of no interface of any node
\* of G is in neither get_dataflow_ip_connections(G) nor
\* get_dataflow_external_connections(G), both return a list, and the other
\* connections are classified as in the graph without the dangling ones.
WithoutDangling ==
    [graph |-> [nodes |-> Nodes,
                connections |->
                    Pick(Conns, {i \in 1..Len(Conns) : ~Dangling(Conns[i])})]]

C5_DanglingExcluded ==
    /\ pc = "get_dataflow_ip_connections" =>
          /\ \A i \in 1..Len(Conns) : Dangling(Conns[i]) => ~Occurs(Conns[i], ret)
          /\ ret = get_dataflow_ip_connections(WithoutDangling)
    /\ pc = "get_dataflow_external_connections" =>
          /\ \A i \in 1..Len(Conns) : Dangling(Conns[i]) => ~Occurs(Conns[i], ret)
          /\ ret = get_dataflow_external_connections(WithoutDangling)

C5_Witness ==
    /\ pc = "get_dataflow_ip_connections"
    /\ Len(Conns) = 2
    /\ Dangling(Conns[1])
    /\ BothCore(Conns[2])
    /\ ret = <<Conns[2]>>

\* C6: for nodes whose interface ids are unique, _get_interfaces returns a
\* mapping whose keys are exactly the interface ids of the nodes, each id
\* mapped to the name of the owning node and the name and direction of the
\* interface; an id of no node is not a key.
C6_InterfaceIndex ==
    (pc = "_get_interfaces" /\ UniqueIds(Nodes)) =>
        /\ DOMAIN ret = AllIds
        /\ \A p \in IfacePos(Nodes, 1..Len(Nodes)) :
              ret[Nodes[p[1]].interfaces[p[2]].id] =
                  [node_name  |-> Nodes[p[1]].name,
                   iface_name |-> Nodes[p[1]].interfaces[p[2]].name,
                   iface_dir  |-> Nodes[p[1]].interfaces[p[2]].direction]
        /\ \A id \in IfaceIds \ AllIds : id \notin DOMAIN ret

C6_Witness ==
    /\ pc = "_get_interfaces"
    /\ UniqueIds(Nodes)
    /\ Len(Nodes) = 2
    /\ Nodes[1].name # Nodes[2].name
    /\ Len(Nodes[1].interfaces) = 1
    /\ Len(Nodes[2].interfaces) = 1
    /\ DOMAIN ret = {"i1", "i2"}

\* C7: find_spec_interface_by_name(specification, node_type, iface_name)
\* returns the first interface, in catalog order then interface order, that
\* is named iface_name on an entry of type node_type, and None when there is
\* none (unknown type, or no such name on that type); an interface of an
\* entry of another type is never returned.
SpecMatches ==
    {p \in IfacePos(specification.nodes, 1..Len(specification.nodes)) :
        /\ specification.nodes[p[1]].type = args[1]
        /\ specification.nodes[p[1]].interfaces[p[2]].name = args[2]}

FirstSpecMatch ==
    CHOOSE p \in SpecMatches :
        \A q \in SpecMatches : p[1] < q[1] \/ (p[1] = q[1] /\ p[2] <= q[2])

C7_SpecLookup ==
    pc = "find_spec_interface_by_name" =>
        IF SpecMatches = {} THEN ret = None
        ELSE ret = Some(specification.nodes[FirstSpecMatch[1]].interfaces[FirstSpecMatch[2]])

C7_Witness ==
    /\ pc = "find_spec_interface_by_name"
    /\ Len(specification.nodes) = 2
    /\ specification.nodes[1].type # args[1]
    /\ Len(specification.nodes[1].interfaces) = 1
    /\ specification.nodes[1].interfaces[1].name = args[2]
    /\ specification.nodes[2].type = args[1]
    /\ Len(specification.nodes[2].interfaces) = 1
    /\ specification.nodes[2].interfaces[1].name = args[2]
    /\ specification.nodes[2].interfaces[1] # specification.nodes[1].interfaces[1]
    /\ ret = Some(specification.nodes[2].interfaces[1])

\* C8: in a graph whose interface ids are unique,
\* find_dataflow_interface_by_id(G, id) returns the entry of the interface
\* with that id whether an IP-core node or a metanode owns it, the entry
\* that get_dataflow_ips_interfaces(G) or get_dataflow_externals_interfaces(G)
\* has for the id, and None exactly when the id is a key of neither.
C8_FindInterfaceById ==
    (pc = "find_dataflow_interface_by_id" /\ UniqueIds(Nodes)) =>
        LET ips == get_dataflow_ips_interfaces(dataflow_json)
            exts == get_dataflow_externals_interfaces(dataflow_json)
        IN  /\ args[1] \in DOMAIN ips => ret = Some(ips[args[1]])
            /\ args[1] \in DOMAIN exts => ret = Some(exts[args[1]])
            /\ ret = None <=> (args[1] \notin DOMAIN ips /\ args[1] \notin DOMAIN exts)
            /\ \A p \in IfacePos(Nodes, 1..Len(Nodes)) :
                  Nodes[p[1]].interfaces[p[2]].id = args[1] =>
                      ret = Some([node_name  |-> Nodes[p[1]].name,
                                  iface_name |-> Nodes[p[1]].interfaces[p[2]].name,
                                  iface_dir  |-> Nodes[p[1]].interfaces[p[2]].direction])

C8_Witness ==
    /\ pc = "find_dataflow_interface_by_id"
    /\ UniqueIds(Nodes)
    /\ Len(Nodes) = 2
    /\ Nodes[1].type = "ps7"
    /\ Nodes[2].type = "External Input"
    /\ Len(Nodes[1].interfaces) = 1
    /\ Len(Nodes[2].interfaces) = 1
    /\ args[1] = Nodes[2].interfaces[1].id
    /\ ret # None
    /\ ret[1].node_name = Nodes[2].name

\* C9: find_dataflow_node_type_by_name(G, name) returns the type of the
\* first node of G named name, also when several nodes carry the name, and
\* the absent value (None) when no node of G carries it; it never returns
\* the type of a node of another name.
C9_FindNodeType ==
    pc = "find_dataflow_node_type_by_name" =>
        LET named == {i \in 1..Len(Nodes) : Nodes[i].name = args[1]}
        IN  IF named = {} THEN ret = None
            ELSE ret = Some(Nodes[CHOOSE i \in named : \A j \in named : i <= j].type)

C9_Witness ==
    /\ pc = "find_dataflow_node_type_by_name"
    /\ Len(Nodes) = 2
    /\ Nodes[1].name = args[1]
    /\ Nodes[2].name = args[1]
    /\ Nodes[1].type # Nodes[2].type
    /\ ret = Some(Nodes[1].type)

\* C10: each of the four views keeps the order and the multiplicity of its
\* input: get_dataflow_ip_nodes(G) and get_dataflow_metanodes(G) are
\* subsequences of the node list, get_dataflow_ip_connections(G) and
\* get_dataflow_external_connections(G) are subsequences of the connection
\* list, and an element a view holds is held as many times as G lists it.
KeepsOrderAndMultiplicity(r, s) ==
    /\ IsSubsequence(r, s)
    /\ \A k \in 1..Len(r) : Count(r[k], r) = Count(r[k], s)

C10_ViewsAreSubsequences ==
    /\ pc \in {"get_dataflow_ip_nodes", "get_dataflow_metanodes"} =>
          KeepsOrderAndMultiplicity(ret, Nodes)
    /\ pc \in {"get_dataflow_ip_connections", "get_dataflow_external_connections"} =>
          KeepsOrderAndMultiplicity(ret, Conns)

C10_Witness ==
    /\ pc = "get_dataflow_ip_connections"
    /\ Len(Conns) = 2
    /\ Conns[1] # Conns[2]
    /\ ret = Conns

====
